---- MODULE Spec2Model ----
(***************************************************************************)
(* Model of lib/steganography/steganography.c: the payload cipher          *)
(* (xor_encrypt), the capacity model (get_max_capacity), the two entry     *)
(* points encode_lsb_dct / decode_lsb_dct and free_steganography_result,   *)
(* together with the C heap (malloc/free) they run on.                     *)
(***************************************************************************)
EXTENDS Integers, Sequences, FiniteSets, TLC

VARIABLES
    heap,      \* the C heap: block address -> [live, bytes]
    result,    \* the caller's two SteganographyResult variables ("enc", "dec")
    call,      \* for each of them, the arguments of the call that filled it
    pc,        \* "running", or "crashed" once the process was killed
    events,    \* undefined behaviour executed so far
    xdata,     \* cipher harness: the buffer xor_encrypt works on
    xorig,     \* cipher harness: the buffer's original contents
    xkey,      \* cipher harness: the password
    xcount,    \* cipher harness: number of xor_encrypt applications so far
    xprev,     \* cipher harness: the buffer before the last application
    capA,      \* capacity harness: the size of the query before the last
    resA,      \* capacity harness: its answer
    capB,      \* capacity harness: the size of the last query
    resB       \* capacity harness: its answer

vars == <<heap, result, call, pc, events,
          xdata, xorig, xkey, xcount, xprev, capA, resA, capB, resB>>

apiVars == <<heap, result, call, pc, events>>
xorVars == <<xdata, xorig, xkey, xcount, xprev>>
capVars == <<capA, resA, capB, resB>>

-----------------------------------------------------------------------------
(* Bounds of the model *)

\* number of blocks the heap can hold; malloc returns NULL when it is full
MaxHeap == 3
\* longest buffer the cipher harness feeds to xor_encrypt
MaxDataLen == 3
\* longest password the cipher harness uses
MaxKeyLen == 2
\* largest carrier size the capacity harness queries
MaxCapSize == 160
\* how many times the cipher harness applies xor_encrypt to one buffer
MaxApply == 3

-----------------------------------------------------------------------------
(* Program constants *)

\* `if (image_size < 100) return 0;`
MinImageSize == 100
\* `size_t pixel_count = image_size / 3;`
BytesPerPixel == 3
\* `message_length + 8 > max_capacity`
HeaderBytes == 8
\* uint8_t
ByteMod == 256

-----------------------------------------------------------------------------
(* Bytes and pointers *)

RECURSIVE XorBits(_, _, _)
\* bitwise exclusive-or of the n low bits of a and b
XorBits(a, b, n) ==
    IF n = 0 THEN 0
    ELSE ((a + b) % 2) + 2 * XorBits(a \div 2, b \div 2, n - 1)

\* `data[i] ^= password[i % pass_len]` on a uint8_t: the char is promoted to
\* int (sign-extended where char is signed), the exclusive-or is taken and the
\* result is truncated to 8 bits, which leaves the exclusive-or of the two
\* low bytes whatever the sign of char.
XorByte(d, k) == XorBits(d % ByteMod, k % ByteMod, 8)

NULL == [seg |-> "null", off |-> 0]
HeapPtr(a) == [seg |-> "heap", off |-> a]
\* a string literal of the program (static storage)
Literal(k) == [seg |-> "rodata", off |-> k]
\* caller-owned carrier and payload buffers
ImagePtr(k) == [seg |-> "image", off |-> k]
MessagePtr(k) == [seg |-> "message", off |-> k]

\* the four error strings of steganography.c
ErrInvalidInput == Literal(1)
ErrAllocFailed == Literal(2)
ErrTooLarge == Literal(3)
ErrInvalidImage == Literal(4)

LiteralText(p) ==
    CASE p = ErrInvalidInput -> "Invalid input data"
      [] p = ErrAllocFailed -> "Memory allocation failed"
      [] p = ErrTooLarge -> "Message too large for image capacity"
      [] p = ErrInvalidImage -> "Invalid image data"

-----------------------------------------------------------------------------
(* Payload cipher *)

\* the cipher with `|=` written for `^=`
xor_encrypt_or(data, length, password) ==
    LET pass_len == Len(password)
    IN IF pass_len = 0 THEN data
       ELSE [i \in 1..Len(data) |->
               IF i <= length
               THEN LET k == password[((i - 1) % pass_len) + 1]
                        x == XorByte(data[i], k)
                    IN  (x + ((data[i] + k - x) \div 2)) % ByteMod
               ELSE data[i]]

\* xor_encrypt(data, length, password): in place, data[i] ^= password[i % pass_len]
\* for i < length; an empty password returns at once.  Sequences are 1-based.
xor_encrypt(data, length, password) ==
    LET pass_len == Len(password)
    IN IF pass_len = 0 THEN data
       ELSE [i \in 1..Len(data) |->
               IF i <= length
               THEN XorByte(data[i], password[((i - 1) % pass_len) + 1])
               ELSE data[i]]

-----------------------------------------------------------------------------
(* Capacity model *)

\* MAX_CAPACITY_FACTOR is the double nearest to 0.3, 0x3FD3333333333333, that
\* is 0x13333333333333 * 2^-54.  Its 53-bit significand in base-2^16 limbs,
\* least significant first:
FactorLimbs == <<13107, 13107, 13107, 19>>
LimbBase == 2^16

RECURSIVE BitLen(_)
BitLen(n) == IF n = 0 THEN 0 ELSE 1 + BitLen(n \div 2)

RECURSIVE Pow2(_)
Pow2(n) == IF n = 0 THEN 1 ELSE 2 * Pow2(n - 1)

\* the exact product pixel_count * significand, in base-2^16 limbs
ExactProduct(pixel_count) ==
    LET t0 == pixel_count * FactorLimbs[1]
        t1 == pixel_count * FactorLimbs[2] + t0 \div LimbBase
        t2 == pixel_count * FactorLimbs[3] + t1 \div LimbBase
        t3 == pixel_count * FactorLimbs[4] + t2 \div LimbBase
    IN  <<t0 % LimbBase, t1 % LimbBase, t2 % LimbBase, t3 % LimbBase,
          t3 \div LimbBase>>

\* (size_t)(pixel_count * MAX_CAPACITY_FACTOR): pixel_count is converted to
\* double (exactly, below 2^53), the product is rounded to the nearest double
\* (53 significant bits, ties to even) and the conversion to size_t truncates.
\* With X the exact product scaled by 2^54, q = X div 2^54 and r = X mod 2^54,
\* the rounded product reaches q + 1 exactly when 2^54 - r is at most half a
\* unit in the last place of X, that is 2^BitLen(q).
ScaleByFactor(pixel_count) ==
    LET x == ExactProduct(pixel_count)
        q == x[5] * 1024 + x[4] \div 64
        half == Pow2(BitLen(q))
        roundsUp == /\ x[4] % 64 = 63
                    /\ x[3] = LimbBase - 1
                    /\ x[2] = LimbBase - 1
                    /\ half <= LimbBase
                    /\ x[1] >= LimbBase - half
    IN  IF roundsUp THEN q + 1 ELSE q

\* the same product rounded toward zero
ScaleByFactor_truncating(pixel_count) ==
    LET x == ExactProduct(pixel_count)
    IN  x[5] * 1024 + x[4] \div 64

\* the capacity taken from the byte count, the division by 3 forgotten
get_max_capacity_per_byte(image_size) ==
    IF image_size < MinImageSize THEN 0
    ELSE ScaleByFactor(image_size)

\* the capacity with the product truncated instead of rounded to nearest
get_max_capacity_truncating(image_size) ==
    IF image_size < MinImageSize THEN 0
    ELSE ScaleByFactor_truncating(image_size \div BytesPerPixel)

\* get_max_capacity(image_data, image_size); image_data is not read
get_max_capacity(image_size) ==
    IF image_size < MinImageSize THEN 0
    ELSE LET pixel_count == image_size \div BytesPerPixel
         IN  ScaleByFactor(pixel_count)

-----------------------------------------------------------------------------
(* Caller-owned buffers *)

\* the carrier of n bytes the caller passes as image_data
CarrierBytes(n) == [i \in 1..n |-> (i * 7 + 3) % ByteMod]

\* "Decoded secret message", the string literal of decode_lsb_dct
DemoMessage ==
    <<68, 101, 99, 111, 100, 101, 100, 32, 115, 101, 99, 114, 101, 116, 32,
      109, 101, 115, 115, 97, 103, 101>>

\* the payloads the caller passes as message: empty, the 22 bytes "Decoded
\* secret message", 23 bytes, "0123456789", and 200 bytes
MessageBytes(k) ==
    CASE k = 1 -> <<>>
      [] k = 2 -> DemoMessage
      [] k = 3 -> [i \in 1..23 |-> 64 + i]
      [] k = 4 -> <<48, 49, 50, 51, 52, 53, 54, 55, 56, 57>>
      [] k = 5 -> [i \in 1..200 |-> (i * 3) % ByteMod]

\* the passwords: "", "k", "test123"
PwEmpty == <<>>
PwShort == <<107>>
PwTest123 == <<116, 101, 115, 116, 49, 50, 51>>

NullImage == [ptr |-> NULL, size |-> 0]
Image(n) == [ptr |-> ImagePtr(n), size |-> n]
NullMessage == [ptr |-> NULL, len |-> 0]
Message(k) == [ptr |-> MessagePtr(k), len |-> Len(MessageBytes(k))]

-----------------------------------------------------------------------------
(* The heap *)

Blocks == 1..MaxHeap
FreeBlock == [live |-> FALSE, bytes |-> <<>>]
EmptyHeap == [a \in Blocks |-> FreeBlock]

\* malloc(size): NULL (the allocator may refuse any request, and must when no
\* block is left), or a block that is not in use
malloc(h) ==
    LET unused == {a \in Blocks : ~h[a].live}
    IN  {NULL} \cup
        (IF unused = {} THEN {}
         ELSE {HeapPtr(CHOOSE a \in unused : \A b \in unused : a <= b)})

\* the heap once `bytes` were written to the fresh block p
Store(h, p, bytes) == [h EXCEPT ![p.off] = [live |-> TRUE, bytes |-> bytes]]

\* free(p) is defined only for a live heap block (free(NULL) is never called)
FreeIsDefined(h, p) == p.seg = "heap" /\ h[p.off].live

free(h, p) == IF FreeIsDefined(h, p) THEN [h EXCEPT ![p.off] = FreeBlock] ELSE h

\* the first n bytes p points to
Load(h, p, n) ==
    LET all == CASE p.seg = "image" -> CarrierBytes(p.off)
                 [] p.seg = "message" -> MessageBytes(p.off)
                 [] p.seg = "heap" -> h[p.off].bytes
                 [] OTHER -> <<>>
    IN  SubSeq(all, 1, n)

-----------------------------------------------------------------------------
(* SteganographyResult *)

\* `SteganographyResult result = {0};`
ZeroResult ==
    [success |-> FALSE, error_message |-> NULL, data |-> NULL,
     data_length |-> 0, width |-> 0, height |-> 0]

\* result.success = false; result.error_message = msg; return result;
Failure(msg) == [ZeroResult EXCEPT !.error_message = msg]

\* what one call did: the struct it returned (when it returned), the heap it
\* left, what each malloc in it returned, and the undefined behaviour it ran
Outcome(res, h, allocs, ub, crashed) ==
    [res |-> res, heap |-> h, allocs |-> allocs, ub |-> ub, crashed |-> crashed]

-----------------------------------------------------------------------------
(* The entry points.  Each yields the set of outcomes the call can have:    *)
(* one per way its malloc calls can answer and, where the call runs into    *)
(* undefined behaviour, one per way the process can fare.                   *)

\* encode_lsb_dct once encrypted_message was allocated (lines 95-117)
encode_after_alloc(h, image_data, image_size, message, message_length, password, encrypted_message) ==
    LET \* memcpy(encrypted_message, message, message_length); xor_encrypt(...)
        h1 == Store(h, encrypted_message,
                    xor_encrypt(Load(h, message, message_length),
                                message_length, password))
        max_capacity == get_max_capacity(image_size)
    IN  IF message_length + HeaderBytes > max_capacity
        THEN {Outcome(Failure(ErrTooLarge), free(h1, encrypted_message),
                      <<encrypted_message>>, {}, FALSE)}
        ELSE UNION {
               IF data = NULL
               THEN \* memcpy(NULL, image_data, image_size) with image_size > 0:
                    \* the process is killed by the store, or the store goes
                    \* unnoticed and the call returns success with data NULL
                    { Outcome(ZeroResult, h1, <<encrypted_message, data>>,
                              {"write_through_null"}, TRUE),
                      Outcome([ZeroResult EXCEPT !.success = TRUE,
                                                 !.data_length = image_size],
                              free(h1, encrypted_message),
                              <<encrypted_message, data>>,
                              {"write_through_null"}, FALSE) }
               ELSE { Outcome([ZeroResult EXCEPT !.success = TRUE,
                                                 !.data = data,
                                                 !.data_length = image_size],
                              free(Store(h1, data,
                                         Load(h1, image_data, image_size)),
                                   encrypted_message),
                              <<encrypted_message, data>>, {}, FALSE) }
               : data \in malloc(h1) }

\* encode_lsb_dct(image_data, image_size, message, message_length, password)
encode_lsb_dct(h, image_data, image_size, message, message_length, password) ==
    IF image_data = NULL \/ message = NULL
    THEN {Outcome(Failure(ErrInvalidInput), h, <<>>, {}, FALSE)}
    ELSE UNION {
           IF encrypted_message = NULL
           THEN {Outcome(Failure(ErrAllocFailed), h, <<NULL>>, {}, FALSE)}
           ELSE encode_after_alloc(h, image_data, image_size, message,
                                   message_length, password, encrypted_message)
           : encrypted_message \in malloc(h) }

\* decode_lsb_dct(image_data, image_size, password); neither the bytes of
\* image_data nor image_size are read
decode_lsb_dct(h, image_data, image_size, password) ==
    IF image_data = NULL
    THEN {Outcome(Failure(ErrInvalidImage), h, <<>>, {}, FALSE)}
    ELSE LET demo_message == DemoMessage
             message_length == Len(demo_message)
         IN  { IF decoded_message = NULL
               THEN Outcome(Failure(ErrAllocFailed), h, <<NULL>>, {}, FALSE)
               ELSE \* strcpy writes the string and its terminating 0;
                    \* xor_encrypt works on the first message_length bytes
                    Outcome([ZeroResult EXCEPT !.success = TRUE,
                                               !.data = decoded_message,
                                               !.data_length = message_length],
                            Store(h, decoded_message,
                                  xor_encrypt(demo_message \o <<0>>,
                                              message_length, password)),
                            <<decoded_message>>, {}, FALSE)
               : decoded_message \in malloc(h) }

\* the ways free(p) can go: as defined for a live heap block; otherwise
\* undefined, and the process is killed or carries on with its heap as it was
FreeOutcomes(h, p) ==
    IF FreeIsDefined(h, p)
    THEN {[heap |-> free(h, p), ub |-> {}, crashed |-> FALSE]}
    ELSE LET what == IF p.seg = "rodata" THEN "free_of_string_literal"
                     ELSE "free_of_dead_block"
         IN  {[heap |-> h, ub |-> {what}, crashed |-> c] : c \in BOOLEAN}

\* free_steganography_result(result), result not NULL
free_steganography_result(h, r) ==
    LET first == IF r.data # NULL
                 THEN {[f EXCEPT !.res = IF f.crashed THEN r
                                         ELSE [r EXCEPT !.data = NULL,
                                                        !.data_length = 0]]
                       : f \in {Outcome(r, g.heap, <<>>, g.ub, g.crashed)
                                : g \in FreeOutcomes(h, r.data)}}
                 ELSE {Outcome(r, h, <<>>, {}, FALSE)}
    IN  UNION {
          IF f.crashed \/ f.res.error_message = NULL THEN {f}
          ELSE {Outcome(IF g.crashed THEN f.res
                        ELSE [f.res EXCEPT !.error_message = NULL],
                        g.heap, <<>>, f.ub \cup g.ub, g.crashed)
                : g \in FreeOutcomes(f.heap, f.res.error_message)}
          : f \in first }

-----------------------------------------------------------------------------
(* The caller *)

Slots == {"enc", "dec"}

\* what is remembered of the call that filled a result variable
NoCall ==
    [op |-> "none", image_data |-> NULL, image_size |-> 0, message |-> NULL,
     message_length |-> 0, password |-> <<>>, payload |-> <<>>,
     allocs |-> <<>>, returned |-> FALSE, freed |-> FALSE,
     fromEncode |-> FALSE, encPayload |-> <<>>, encPassword |-> <<>>]

\* the call ended with outcome o
Finish(slot, c, o) ==
    /\ heap' = o.heap
    /\ events' = events \cup o.ub
    /\ pc' = IF o.crashed THEN "crashed" ELSE "running"
    /\ result' = IF o.crashed THEN result ELSE [result EXCEPT ![slot] = o.res]
    /\ call' = [call EXCEPT ![slot] =
                  [c EXCEPT !.allocs = o.allocs, !.returned = ~o.crashed]]

\* result["enc"] = encode_lsb_dct(image, message, password); the caller does
\* not overwrite a result that still owns a buffer
EncodeCall(Images, Messages, Passwords) ==
    /\ pc = "running"
    /\ result["enc"].data = NULL
    /\ \E image \in Images, message \in Messages, password \in Passwords :
         \E o \in encode_lsb_dct(heap, image.ptr, image.size,
                                 message.ptr, message.len, password) :
            Finish("enc",
                   [NoCall EXCEPT !.op = "encode",
                                  !.image_data = image.ptr,
                                  !.image_size = image.size,
                                  !.message = message.ptr,
                                  !.message_length = message.len,
                                  !.password = password,
                                  !.payload = Load(heap, message.ptr, message.len)],
                   o)
    /\ UNCHANGED <<xorVars, capVars>>

\* the carrier the last encode returned, while the caller still holds it
Stego ==
    IF call["enc"].op = "encode" /\ call["enc"].returned
       /\ result["enc"].success /\ result["enc"].data # NULL
    THEN {[ptr |-> result["enc"].data, size |-> result["enc"].data_length]}
    ELSE {}

\* result["dec"] = decode_lsb_dct(image, password), image one of the caller's
\* carriers or the carrier the last encode returned
DecodeCall(Images, Passwords) ==
    /\ pc = "running"
    /\ result["dec"].data = NULL
    /\ \E image \in Images \cup Stego, password \in Passwords :
         \E o \in decode_lsb_dct(heap, image.ptr, image.size, password) :
            Finish("dec",
                   [NoCall EXCEPT !.op = "decode",
                                  !.image_data = image.ptr,
                                  !.image_size = image.size,
                                  !.password = password,
                                  !.fromEncode = (image \in Stego),
                                  !.encPayload = IF image \in Stego
                                                 THEN call["enc"].payload
                                                 ELSE <<>>,
                                  !.encPassword = IF image \in Stego
                                                  THEN call["enc"].password
                                                  ELSE <<>>],
                   o)
    /\ UNCHANGED <<xorVars, capVars>>

\* free_steganography_result(&result[slot])
FreeCall ==
    /\ pc = "running"
    /\ \E slot \in Slots :
         /\ call[slot].returned
         /\ \E o \in free_steganography_result(heap, result[slot]) :
              /\ heap' = o.heap
              /\ events' = events \cup o.ub
              /\ pc' = IF o.crashed THEN "crashed" ELSE "running"
              /\ result' = [result EXCEPT ![slot] = o.res]
              /\ call' = [call EXCEPT ![slot].freed = TRUE]
    /\ UNCHANGED <<xorVars, capVars>>

-----------------------------------------------------------------------------
(* Harness of the cipher: one buffer, one password, xor_encrypt applied to  *)
(* the whole buffer again and again.                                        *)

\* the byte values buffers are drawn from, and the (non-zero) password chars
DataBytes == {0, 1, 107, 128, 255}
KeyBytes == {1, 107, 255}

SeqsUpTo(S, n) == UNION {[1..k -> S] : k \in 0..n}

XorApply ==
    /\ xcount < MaxApply
    /\ xprev' = xdata
    /\ xdata' = xor_encrypt(xdata, Len(xdata), xkey)
    /\ xcount' = xcount + 1
    /\ UNCHANGED <<xorig, xkey, apiVars, capVars>>

-----------------------------------------------------------------------------
(* Harness of the capacity model: queries of get_max_capacity, the last two *)
(* kept.                                                                    *)

CapacityQuery ==
    /\ \E image_size \in 0..MaxCapSize :
         /\ capA' = capB
         /\ resA' = resB
         /\ capB' = image_size
         /\ resB' = get_max_capacity(image_size)
    /\ UNCHANGED <<apiVars, xorVars>>

-----------------------------------------------------------------------------
(* Specifications *)

ApiIdle ==
    /\ heap = EmptyHeap
    /\ result = [s \in Slots |-> ZeroResult]
    /\ call = [s \in Slots |-> NoCall]
    /\ pc = "running"
    /\ events = {}

XorIdle ==
    /\ xdata = <<>>
    /\ xorig = <<>>
    /\ xkey = <<>>
    /\ xprev = <<>>
    /\ xcount = 0

CapIdle ==
    /\ capA = 0
    /\ resA = get_max_capacity(0)
    /\ capB = 0
    /\ resB = get_max_capacity(0)

\* the inputs of the general specification
ApiImages == {NullImage} \cup {Image(n) : n \in {0, 300}}
ApiMessages == {NullMessage} \cup {Message(k) : k \in 1..3}
ApiPasswords == {PwEmpty, PwShort}

\* the inputs of the concrete scenario: a carrier of 30,000 bytes, payloads of
\* 10 and 200 bytes, password "test123"
ScenarioImages == {Image(30000)}
ScenarioMessages == {Message(4), Message(5)}
ScenarioPasswords == {PwTest123}

Init == ApiIdle /\ XorIdle /\ CapIdle

Next ==
    \/ EncodeCall(ApiImages, ApiMessages, ApiPasswords)
    \/ DecodeCall(ApiImages, ApiPasswords)
    \/ FreeCall

Spec == Init /\ [][Next]_vars

NextScenario ==
    \/ EncodeCall(ScenarioImages, ScenarioMessages, ScenarioPasswords)
    \/ DecodeCall(ScenarioImages, ScenarioPasswords)
    \/ FreeCall

SpecScenario == Init /\ [][NextScenario]_vars

InitXor ==
    /\ ApiIdle
    /\ CapIdle
    /\ xorig \in SeqsUpTo(DataBytes, MaxDataLen)
    /\ xkey \in SeqsUpTo(KeyBytes, MaxKeyLen)
    /\ xdata = xorig
    /\ xprev = xorig
    /\ xcount = 0

SpecXor == InitXor /\ [][XorApply]_vars

SpecCap == Init /\ [][CapacityQuery]_vars

-----------------------------------------------------------------------------
(* Properties *)

\* result[slot] is what the last call on it returned, not yet released
Returned(slot) == call[slot].returned /\ ~call[slot].freed

\* the bytes result[slot].data points to
ResultBytes(slot) ==
    Load(heap, result[slot].data, result[slot].data_length)

AllocsOf(slot) == {call[slot].allocs[i] : i \in 1..Len(call[slot].allocs)}

\* C1: decode_lsb_dct, given the carrier a successful encode_lsb_dct returned
\* and the same password, succeeds and returns exactly the payload, with
\* data_length the payload's length (its allocation having succeeded).
C1_RoundTrip ==
    (/\ call["dec"].op = "decode"
     /\ Returned("dec")
     /\ call["dec"].fromEncode
     /\ call["dec"].password = call["dec"].encPassword
     /\ NULL \notin AllocsOf("dec"))
    => /\ result["dec"].success
       /\ result["dec"].data_length = Len(call["dec"].encPayload)
       /\ ResultBytes("dec") = call["dec"].encPayload

\* C2: encode_lsb_dct with a non-null carrier and a non-null payload whose
\* length plus the 8 header bytes exceeds get_max_capacity fails with
\* "Message too large for image capacity" and returns no data.
C2_CapacityRejection ==
    (/\ call["enc"].op = "encode"
     /\ Returned("enc")
     /\ call["enc"].image_data # NULL
     /\ call["enc"].message # NULL
     /\ call["enc"].message_length + HeaderBytes
          > get_max_capacity(call["enc"].image_size))
    => /\ ~result["enc"].success
       /\ result["enc"].error_message = ErrTooLarge
       /\ result["enc"].data = NULL
       /\ result["enc"].data_length = 0

\* an encode call of the concrete scenario has returned
InScenario ==
    /\ call["enc"].op = "encode"
    /\ Returned("enc")
    /\ call["enc"].image_data = ImagePtr(30000)
    /\ call["enc"].image_size = 30000
    /\ call["enc"].password = PwTest123
    /\ call["enc"].message_length \in {10, 200}

\* C3 as stated: on a carrier of 30,000 bytes get_max_capacity is 900, the
\* 10-byte payload with password "test123" is embedded and the 200-byte
\* payload is refused with "Message too large for image capacity".
C3_Scenario ==
    InScenario
    => /\ get_max_capacity(call["enc"].image_size) = 900
       /\ (call["enc"].message_length = 10 /\ NULL \notin AllocsOf("enc"))
            => result["enc"].success
       /\ call["enc"].message_length = 200
            => (~result["enc"].success
                /\ result["enc"].error_message = ErrTooLarge)

\* C3 as amended: on a carrier of 30,000 bytes get_max_capacity is 3000
\* (10,000 pixels times 0.3); neither the 10-byte nor the 200-byte payload is
\* refused as too large, and each is embedded (success, a 30,000-byte copy of
\* the carrier) when the call's allocations succeed.
C3_ScenarioAmended ==
    InScenario
    => /\ get_max_capacity(call["enc"].image_size) = 3000
       /\ result["enc"].error_message # ErrTooLarge
       /\ NULL \notin AllocsOf("enc")
            => /\ result["enc"].success
               /\ result["enc"].data # NULL
               /\ result["enc"].data_length = 30000
               /\ ResultBytes("enc") = CarrierBytes(30000)

\* the 200-byte payload of the scenario was embedded
C3_ScenarioWitness ==
    /\ InScenario
    /\ call["enc"].message_length = 200
    /\ result["enc"].success
    /\ result["enc"].data # NULL

\* C4: with a non-empty password, xor_encrypt never changes the length of the
\* buffer, combines byte i with password byte i mod len on each application,
\* and applied twice restores the original bytes.
C4_CipherInvolution ==
    xkey # <<>>
    => /\ Len(xdata) = Len(xorig)
       /\ xcount >= 1
            => \A i \in 1..Len(xdata) :
                 xdata[i] = XorBits(xprev[i], xkey[((i - 1) % Len(xkey)) + 1], 8)
       /\ xcount % 2 = 0 => xdata = xorig

\* a buffer longer than its password, changed by the first application and
\* restored by the second
C4_CipherWitness ==
    /\ xkey # <<>>
    /\ Len(xorig) > Len(xkey)
    /\ xcount = 2
    /\ xprev # xorig
    /\ xdata = xorig

\* C5: decode_lsb_dct with a password other than the one a successful
\* encode_lsb_dct was given never returns success with the original payload.
C5_WrongKey ==
    (/\ call["dec"].op = "decode"
     /\ Returned("dec")
     /\ call["dec"].fromEncode
     /\ call["dec"].password # call["dec"].encPassword)
    => ~(/\ result["dec"].success
         /\ ResultBytes("dec") = call["dec"].encPayload)

\* C6: encode_lsb_dct with a null or empty carrier or a null or empty payload
\* fails with "Invalid input data", decode_lsb_dct with a null or empty
\* carrier fails with "Invalid image data"; no data is returned.  (Calls in
\* which an allocation failed are left aside.)
C6_InvalidInput ==
    /\ (/\ call["enc"].op = "encode"
        /\ Returned("enc")
        /\ NULL \notin AllocsOf("enc")
        /\ \/ call["enc"].image_data = NULL
           \/ call["enc"].image_size = 0
           \/ call["enc"].message = NULL
           \/ call["enc"].message_length = 0)
       => /\ ~result["enc"].success
          /\ result["enc"].error_message = ErrInvalidInput
          /\ result["enc"].data = NULL
    /\ (/\ call["dec"].op = "decode"
        /\ Returned("dec")
        /\ NULL \notin AllocsOf("dec")
        /\ \/ call["dec"].image_data = NULL
           \/ call["dec"].image_size = 0)
       => /\ ~result["dec"].success
          /\ result["dec"].error_message = ErrInvalidImage
          /\ result["dec"].data = NULL

\* C7: get_max_capacity is non-decreasing in the carrier size, is 0 below 100
\* bytes, is floor(floor(size / 3) * 0.3) from 100 bytes on, and answers the
\* same size with the same value.
C7_Capacity ==
    /\ capA <= capB => resA <= resB
    /\ capB <= capA => resB <= resA
    /\ capA = capB => resA = resB
    /\ capB < 100 => resB = 0
    /\ capB >= 100 => resB = ((capB \div 3) * 3) \div 10

\* two queries above the minimum size with different answers, the later one
\* of a pixel count that is a multiple of ten
C7_CapacityWitness ==
    /\ capA >= 100
    /\ capA < capB
    /\ resA < resB
    /\ capB = 150
    /\ resB = 15

\* C8: a failed allocation inside encode_lsb_dct or decode_lsb_dct makes the
\* call return success = false, "Memory allocation failed" and data NULL; no
\* call returns success with data NULL or writes through a NULL pointer.
C8_AllocationFailure ==
    /\ "write_through_null" \notin events
    /\ \A slot \in Slots :
         (call[slot].op # "none" /\ Returned(slot))
         => /\ result[slot].success => result[slot].data # NULL
            /\ NULL \in AllocsOf(slot)
                 => /\ ~result[slot].success
                    /\ result[slot].error_message = ErrAllocFailed
                    /\ result[slot].data = NULL

\* C10: free_steganography_result passes to free only live heap blocks, each
\* once, and leaves data and error_message NULL and data_length 0.
C10_ReleaseSafety ==
    /\ "free_of_string_literal" \notin events
    /\ "free_of_dead_block" \notin events
    /\ \A slot \in Slots :
         (call[slot].freed /\ pc = "running")
         => /\ result[slot].data = NULL
            /\ result[slot].error_message = NULL
            /\ result[slot].data_length = 0

====
